---- MODULE Spec2Model ----
(***************************************************************************)
(* Model of MOBILE_ACCESS_SETUP_MANAGER.py: one run of                     *)
(* MobileAccessSetupManager.execute_mobile_access_setup, step by step, on  *)
(* a file system that may already hold the tree of an earlier run.         *)
(*                                                                         *)
(* A path is a sequence of components below base_path.  A file's content   *)
(* is a sequence of tokens: literal text, a variable reference written     *)
(* {...} in a template, the value substituted for one, a number, or a      *)
(* timestamp.  Every statement of the program that touches the file        *)
(* system, the clock or git is one entry of Program, run by one action.    *)
(***************************************************************************)
EXTENDS Integers, Sequences, FiniteSets, TLC

\* ---------------------------------------------------------------- bounds
\* Entries of the directory spec that are expanded (the source has 12).
MaxDirs == 2
\* Faults (I/O errors, non-zero exits, an interrupt) injected into a run, at
\* any statements.
MaxFaults == 2
\* The clock shows 0..MaxClock; the earlier run wrote at PriorTime.
MaxClock == 1

Clock == 0..MaxClock
\* The earlier run read the earliest clock value.
PriorTime == CHOOSE t \in Clock : \A u \in Clock : t <= u

\* ---------------------------------------------------------- configuration
CONFIG ==
  [PORTS |-> [MOBILE_DASHBOARD |-> 8000, API_ENDPOINTS |-> 8001,
              MONITORING |-> 8002, RESEARCH |-> 8003, GITHUB |-> 8004,
              START_PORT |-> 8000, END_PORT |-> 8601, TOTAL_PORTS |-> 602],
   URLS |-> [BASE_LOCALHOST |-> "http://localhost",
             MOBILE_DASHBOARD |-> "http://localhost:8000",
             API_ENDPOINTS |-> "http://localhost:8001/api/",
             MONITORING |-> "http://localhost:8002/monitor/",
             RESEARCH |-> "http://localhost:8003/research/",
             GITHUB |-> "http://localhost:8004/github/"],
   GITHUB |-> [USERNAME |-> "worldwidebro",
               MAIN_REPO_NAME |-> "iza-os-ecosystem"]]

github_username == CONFIG.GITHUB.USERNAME
main_repo_name == CONFIG.GITHUB.MAIN_REPO_NAME

\* ------------------------------------------------------------------ paths
mobile_dir == <<"mobile_repositories">>
main_repo_path == Append(mobile_dir, main_repo_name)

Parent(p) == SubSeq(p, 1, Len(p) - 1)
IsUnder(p, d) == Len(p) > Len(d) /\ SubSeq(p, 1, Len(d)) = d
\* Path.mkdir(parents=True): the directory and each missing ancestor.
Ancestors(p) == {SubSeq(p, 1, k) : k \in 1..Len(p)}

\* ----------------------------------------------------------------- tokens
Lit(s) == [k |-> "lit", s |-> s, n |-> 0]
Ref(s) == [k |-> "ref", s |-> s, n |-> 0]
Val(s) == [k |-> "val", s |-> s, n |-> 0]
Num(n) == [k |-> "num", s |-> "", n |-> n]
Time(t) == [k |-> "time", s |-> "", n |-> t]

\* The names an f-string of the program can evaluate, with their values.
Context ==
  [ref \in {"CONFIG.URLS.MOBILE_DASHBOARD", "CONFIG.URLS.API_ENDPOINTS",
            "CONFIG.URLS.MONITORING", "CONFIG.URLS.RESEARCH",
            "CONFIG.URLS.GITHUB", "self.github_username",
            "self.main_repo_name"} |->
     CASE ref = "CONFIG.URLS.MOBILE_DASHBOARD" -> CONFIG.URLS.MOBILE_DASHBOARD
       [] ref = "CONFIG.URLS.API_ENDPOINTS" -> CONFIG.URLS.API_ENDPOINTS
       [] ref = "CONFIG.URLS.MONITORING" -> CONFIG.URLS.MONITORING
       [] ref = "CONFIG.URLS.RESEARCH" -> CONFIG.URLS.RESEARCH
       [] ref = "CONFIG.URLS.GITHUB" -> CONFIG.URLS.GITHUB
       [] ref = "self.github_username" -> github_username
       [] ref = "self.main_repo_name" -> main_repo_name]

\* An f-string literal: every {name} is replaced by the value of name.
FString(tpl, ctx) ==
  [i \in 1..Len(tpl) |->
     IF tpl[i].k = "ref" THEN Val(ctx[tpl[i].s]) ELSE tpl[i]]

\* A plain string literal: the text as written, braces included.
PlainString(tpl) == tpl

IsPlaceholder(tok) == tok.k = "ref"
HasPlaceholder(data) == \E i \in 1..Len(data) : IsPlaceholder(data[i])
HasTimestamp(data) == \E i \in 1..Len(data) : data[i].k = "time"

\* -------------------------------------------------------------- templates
\* A template is its literal text (one token naming it) followed by the
\* variable references it holds, in order of first appearance.
UrlRefs ==
  <<Ref("CONFIG.URLS.MOBILE_DASHBOARD"), Ref("CONFIG.URLS.API_ENDPOINTS"),
    Ref("CONFIG.URLS.MONITORING"), Ref("CONFIG.URLS.RESEARCH"),
    Ref("CONFIG.URLS.GITHUB")>>

RepoRefs == <<Ref("self.github_username"), Ref("self.main_repo_name")>>

\* The directory spec, in declaration order.
subdirectories ==
  <<[name |-> "core/", description |-> "Core autonomous venture studio components"],
    [name |-> "businesses/", description |-> "Business entity implementations and configurations"],
    [name |-> "integrations/", description |-> "External system integrations and APIs"],
    [name |-> "dashboards/", description |-> "Monitoring and control dashboards"],
    [name |-> "research/", description |-> "Research processing components and data"],
    [name |-> "mobile/", description |-> "Mobile-specific optimizations and configurations"],
    [name |-> "api/", description |-> "REST API endpoints and services"],
    [name |-> "docs/", description |-> "Documentation and setup guides"],
    [name |-> "scripts/", description |-> "Automation and deployment scripts"],
    [name |-> "config/", description |-> "Configuration files and settings"],
    [name |-> "data/", description |-> "Data storage and processing"],
    [name |-> "logs/", description |-> "System logs and monitoring data"]>>

\* The entries the model expands.
DirSpec == SubSeq(subdirectories, 1, MaxDirs)

\* str.title() on a directory name.
Title(dir_name) ==
  CASE dir_name = "core/" -> "Core/"
    [] dir_name = "businesses/" -> "Businesses/"
    [] dir_name = "integrations/" -> "Integrations/"
    [] dir_name = "dashboards/" -> "Dashboards/"
    [] dir_name = "research/" -> "Research/"
    [] dir_name = "mobile/" -> "Mobile/"
    [] dir_name = "api/" -> "Api/"
    [] dir_name = "docs/" -> "Docs/"
    [] dir_name = "scripts/" -> "Scripts/"
    [] dir_name = "config/" -> "Config/"
    [] dir_name = "data/" -> "Data/"
    [] dir_name = "logs/" -> "Logs/"

\* repo_path / dir_name: pathlib drops the trailing slash.
PathJoin(repo_path, dir_name) ==
  Append(repo_path,
    CASE dir_name = "core/" -> "core"
      [] dir_name = "businesses/" -> "businesses"
      [] dir_name = "integrations/" -> "integrations"
      [] dir_name = "dashboards/" -> "dashboards"
      [] dir_name = "research/" -> "research"
      [] dir_name = "mobile/" -> "mobile"
      [] dir_name = "api/" -> "api"
      [] dir_name = "docs/" -> "docs"
      [] dir_name = "scripts/" -> "scripts"
      [] dir_name = "config/" -> "config"
      [] dir_name = "data/" -> "data"
      [] dir_name = "logs/" -> "logs")

\* The README of one directory entry: f"# {dir_name.title()} ... {description}
\* ... cd {dir_name} ...", with the loop variables as its context.
dir_readme_content(e) ==
  FString(<<Lit("# dir README"), Ref("dir_name.title()"), Ref("description"),
            Ref("dir_name")>>,
          [r \in {"dir_name.title()", "description", "dir_name"} |->
             CASE r = "dir_name.title()" -> Title(e.name)
               [] r = "description" -> e.description
               [] r = "dir_name" -> e.name])

readme_content == FString(<<Lit("# IZA OS Ecosystem - Mobile Access")>> \o RepoRefs \o UrlRefs, Context)

requirements_content == PlainString(<<Lit("# Mobile-Optimized Requirements")>>)

mobile_docs_content == PlainString(<<Lit("# Mobile Setup Documentation")>> \o UrlRefs)

setup_script_content == PlainString(<<Lit("#!/bin/bash")>> \o UrlRefs)

mobile_server_content == PlainString(<<Lit("#!/usr/bin/env python3")>> \o UrlRefs)

\* json.dump of the dashboard_config dictionary built at time now.
dashboard_config(now) ==
  <<Lit("mobile_dashboard_config"),
    Num(CONFIG.PORTS.MOBILE_DASHBOARD), Num(CONFIG.PORTS.API_ENDPOINTS),
    Num(CONFIG.PORTS.MONITORING), Num(CONFIG.PORTS.RESEARCH),
    Num(CONFIG.PORTS.GITHUB), Num(CONFIG.PORTS.START_PORT),
    Num(CONFIG.PORTS.END_PORT), Num(CONFIG.PORTS.TOTAL_PORTS), Time(now)>>

dashboard_template == PlainString(<<Lit("<!DOCTYPE html>")>> \o Tail(UrlRefs))

instructions == FString(<<Lit("# Mobile Access Setup Instructions")>> \o RepoRefs \o UrlRefs, Context)

\* Rendered, had the README carried the time of its generation.
RenderedWithStampedReadme(tpl, now) ==
  CASE tpl = "readme_content" -> Append(readme_content, Time(now))
    [] tpl = "requirements_content" -> requirements_content
    [] tpl = "mobile_docs_content" -> mobile_docs_content
    [] tpl = "setup_script_content" -> setup_script_content
    [] tpl = "mobile_server_content" -> mobile_server_content
    [] tpl = "dashboard_config" -> dashboard_config(now)
    [] tpl = "dashboard_template" -> dashboard_template
    [] tpl = "instructions" -> instructions
    [] OTHER -> dir_readme_content(CHOOSE e \in {DirSpec[i] : i \in 1..Len(DirSpec)} : e.name = tpl)

\* What each statement that builds a content string produces at time now.
Rendered(tpl, now) ==
  CASE tpl = "readme_content" -> readme_content
    [] tpl = "requirements_content" -> requirements_content
    [] tpl = "mobile_docs_content" -> mobile_docs_content
    [] tpl = "setup_script_content" -> setup_script_content
    [] tpl = "mobile_server_content" -> mobile_server_content
    [] tpl = "dashboard_config" -> dashboard_config(now)
    [] tpl = "dashboard_template" -> dashboard_template
    [] tpl = "instructions" -> instructions
    [] OTHER -> dir_readme_content(CHOOSE e \in {DirSpec[i] : i \in 1..Len(DirSpec)} : e.name = tpl)

ReadsClock(tpl) == tpl = "dashboard_config"

\* ---------------------------------------------------------------- program
\* One statement: the function it belongs to, what it does, the path it
\* acts on, and its argument (a template, a git subcommand, a stage name).
Op(fn, kind, path, arg) == [fn |-> fn, kind |-> kind, path |-> path, arg |-> arg]

\* temp_file = NamedTemporaryFile(...); try: write; close; shutil.move
AtomicWrite(fn, path) ==
  <<Op(fn, "tmp", path, ""), Op(fn, "write", path, ""),
    Op(fn, "close", path, ""), Op(fn, "move", path, "")>>

Body(fn, ops) == <<Op(fn, "call", <<>>, fn)>> \o ops \o <<Op(fn, "ret", <<>>, fn)>>

\* ExpandEntry, had the loop not made the .gitkeep marker.
ExpandEntryWithoutMarker(e, repo_path) ==
  LET fn == "create_recommended_subdirectory_structure"
      dir_path == PathJoin(repo_path, e.name)
  IN  <<Op(fn, "mkdir", dir_path, ""), Op(fn, "render", <<>>, e.name)>>
        \o AtomicWrite(fn, Append(dir_path, "README.md"))

\* One pass of the loop over subdirectories.items(): the directory, its
\* README through the atomic write, its .gitkeep.
ExpandEntry(e, repo_path) ==
  LET fn == "create_recommended_subdirectory_structure"
      dir_path == PathJoin(repo_path, e.name)
  IN  <<Op(fn, "mkdir", dir_path, ""), Op(fn, "render", <<>>, e.name)>>
        \o AtomicWrite(fn, Append(dir_path, "README.md"))
        \o <<Op(fn, "touch", Append(dir_path, ".gitkeep"), "")>>

RECURSIVE ExpandAll(_, _)
ExpandAll(spec, repo_path) ==
  IF spec = <<>> THEN <<>>
  ELSE ExpandEntry(Head(spec), repo_path) \o ExpandAll(Tail(spec), repo_path)

create_recommended_subdirectory_structure(repo_path) ==
  Body("create_recommended_subdirectory_structure", ExpandAll(DirSpec, repo_path))

create_mobile_readme(repo_path) ==
  LET fn == "create_mobile_readme"
  IN  Body(fn, <<Op(fn, "render", <<>>, "readme_content")>>
                 \o AtomicWrite(fn, Append(repo_path, "README.md")))

create_mobile_requirements(repo_path) ==
  LET fn == "create_mobile_requirements"
      mobile_docs_path == repo_path \o <<"docs", "mobile_setup.md">>
  IN  Body(fn, <<Op(fn, "render", <<>>, "requirements_content")>>
                 \o AtomicWrite(fn, Append(repo_path, "requirements.txt"))
                 \o <<Op(fn, "render", <<>>, "mobile_docs_content"),
                      Op(fn, "mkdir", Parent(mobile_docs_path), "")>>
                 \o AtomicWrite(fn, mobile_docs_path))

create_mobile_setup_script(repo_path) ==
  LET fn == "create_mobile_setup_script"
      setup_path == Append(repo_path, "mobile_setup.sh")
      mobile_server_path == Append(repo_path, "mobile_server.py")
  IN  Body(fn, <<Op(fn, "render", <<>>, "setup_script_content")>>
                 \o AtomicWrite(fn, setup_path)
                 \o <<Op(fn, "chmod", setup_path, ""),
                      Op(fn, "render", <<>>, "mobile_server_content")>>
                 \o AtomicWrite(fn, mobile_server_path)
                 \o <<Op(fn, "chmod", mobile_server_path, "")>>)

ConfigPath(repo_path) == repo_path \o <<"config", "mobile_dashboard_config.json">>

create_mobile_dashboard_config(repo_path) ==
  LET fn == "create_mobile_dashboard_config"
      config_path == ConfigPath(repo_path)
      template_path == repo_path \o <<"templates", "mobile_dashboard.html">>
  IN  Body(fn, <<Op(fn, "render", <<>>, "dashboard_config"),
                 Op(fn, "mkdir", Parent(config_path), "")>>
                 \o AtomicWrite(fn, config_path)
                 \o <<Op(fn, "render", <<>>, "dashboard_template"),
                      Op(fn, "mkdir", Parent(template_path), "")>>
                 \o AtomicWrite(fn, template_path))

create_main_github_repository ==
  LET fn == "create_main_github_repository"
  IN  <<Op(fn, "mkdir", mobile_dir, "mkdir mobile_dir"),
        Op(fn, "mkdir", main_repo_path, "mkdir main_repo_path"),
        Op(fn, "git", main_repo_path, "git init")>>
        \o create_recommended_subdirectory_structure(main_repo_path)
        \o create_mobile_readme(main_repo_path)
        \o create_mobile_requirements(main_repo_path)
        \o create_mobile_setup_script(main_repo_path)
        \o create_mobile_dashboard_config(main_repo_path)
        \o <<Op(fn, "git", main_repo_path, "git add"),
             Op(fn, "git", main_repo_path, "git commit"),
             Op(fn, "git", main_repo_path, "git remote add"),
             Op(fn, "return", <<>>, "True")>>

generate_mobile_setup_instructions ==
  LET fn == "generate_mobile_setup_instructions"
  IN  Body(fn, <<Op(fn, "render", <<>>, "instructions")>>
                 \o AtomicWrite(fn, Append(mobile_dir, "MOBILE_SETUP_INSTRUCTIONS.md")))

execute_mobile_access_setup ==
  create_main_github_repository
    \o generate_mobile_setup_instructions
    \o <<Op("execute_mobile_access_setup", "report", <<>>, "")>>

Program == execute_mobile_access_setup

\* The functions whose try block encloses statement i: an exception raised
\* at i is caught by the except clause of the innermost one.
Components ==
  {"create_recommended_subdirectory_structure", "create_mobile_readme",
   "create_mobile_requirements", "create_mobile_setup_script",
   "create_mobile_dashboard_config", "generate_mobile_setup_instructions"}

CalledBy(fn) ==
  IF fn = "create_main_github_repository"
  THEN {fn} \cup (Components \ {"generate_mobile_setup_instructions"})
  ELSE {fn}

\* Handler, had a failed statement of create_main_github_repository not
\* ended it (subprocess.run without check=True): control goes on with the
\* next statement outside the function the statement is written in.
HandlerGoesOn(i) ==
  LET after == {j \in (i + 1)..Len(Program) : Program[j].fn # Program[i].fn}
  IN  IF after = {} THEN Len(Program) + 1
      ELSE CHOOSE j \in after : \A m \in after : j <= m

\* Where control continues after the except clause that catches an exception
\* raised at statement i: the first statement after the catching function.
Handler(i) ==
  LET scope == CalledBy(Program[i].fn)
      after == {j \in (i + 1)..Len(Program) : Program[j].fn \notin scope}
  IN  IF after = {} THEN Len(Program) + 1
      ELSE CHOOSE j \in after : \A m \in after : j <= m

\* ------------------------------------------------------------ file system
NoFile == [exists |-> FALSE, data |-> <<>>]
File(data) == [exists |-> TRUE, data |-> data]

\* Volumes: the one holding base_path, and another one.
RootVolume == "volume of base_path"
Volumes == {RootVolume, "another volume"}
VolumeOf(path) == RootVolume

NoTemp == [exists |-> FALSE, data |-> <<>>, vol |-> RootVolume]

Indices(kinds) == {i \in 1..Len(Program) : Program[i].kind \in kinds}

\* Every path the program places a file at.
GeneratedPaths == {Program[i].path : i \in Indices({"move", "touch"})}
RepoPaths == {p \in GeneratedPaths : IsUnder(p, main_repo_path)}
ExecutablePaths == {Program[i].path : i \in Indices({"chmod"})}

\* The content a fault-free run at time now leaves at a generated path.
ContentFor(p, now) ==
  LET i == CHOOSE j \in Indices({"move", "touch"}) : Program[j].path = p
      rs == {j \in Indices({"render"}) : j < i}
      r == CHOOSE j \in rs : \A m \in rs : m <= j
  IN  IF Program[i].kind = "touch" THEN <<>> ELSE Rendered(Program[r].arg, now)

Prefixes(data) == {SubSeq(data, 1, k) : k \in 0..(Len(data) - 1)}

\* What git add . records: the generated files under the repository root
\* with their executable bits, and every other file that is under it.
Snapshot(files, x, user) ==
  [files |-> [p \in RepoPaths |-> files[p]], exec |-> x \cap RepoPaths,
   user |-> {u \in user : ~u.dir /\ IsUnder(u.path, main_repo_path)}]
EmptyTree == [p \in GeneratedPaths |-> NoFile]

\* The tree, and the repository, that a complete earlier run at PriorTime left.
BootstrappedTree == [p \in GeneratedPaths |-> File(ContentFor(p, PriorTime))]
BootstrappedDirs == UNION {Ancestors(Parent(p)) : p \in GeneratedPaths}
BootstrappedGit ==
  [init |-> TRUE, index |-> Snapshot(BootstrappedTree, ExecutablePaths, {}),
   head |-> Snapshot(BootstrappedTree, ExecutablePaths, {}), commits |-> 1,
   remotes |-> {"origin"}]
NoGit ==
  [init |-> FALSE, index |-> Snapshot(EmptyTree, {}, {}), head |-> Snapshot(EmptyTree, {}, {}),
   commits |-> 0, remotes |-> {}]

\* ----------------------------------------------------------------- report
generate_mobile_completion_report(now) ==
  [timestamp |-> now,
   mobile_access_enabled |-> TRUE,
   main_repository_created |-> TRUE,
   subdirectory_structure |-> TRUE,
   mobile_optimization |-> TRUE,
   dashboard_access |-> TRUE,
   api_endpoints |-> TRUE,
   repository_info |-> [name |-> main_repo_name, local_path |-> main_repo_path,
                        mobile_ready |-> TRUE],
   next_steps |-> <<"Execute Complete Integration Resolution",
                    "Final System Verification", "Mobile Access Testing">>]

NoReport == [pending |-> TRUE]

\* ------------------------------------------------------- the rest of the tree
\* What a user may have put under mobile_dir after an earlier run: a file in
\* the repository root, a directory with a file in a spec directory.
UserTree ==
  {[path |-> Append(main_repo_path, "NOTES.txt"), dir |-> FALSE, data |-> <<Lit("notes")>>],
   [path |-> main_repo_path \o <<"core", "src">>, dir |-> TRUE, data |-> <<>>],
   [path |-> main_repo_path \o <<"core", "src", "engine.py">>, dir |-> FALSE,
    data |-> <<Lit("engine")>>]}

\* The completion-analysis file: absent, or there with its text; a file
\* that is there may be unreadable (open raises).
AbsentFile == [exists |-> FALSE, readable |-> FALSE, text |-> <<>>]
NotLoaded == [returned |-> FALSE, ok |-> FALSE, value |-> [t |-> "obj", s |-> "", members |-> {}]]

\* ------------------------------------------------------------------ state
VARIABLES
  pc,        \* index in Program of the statement to run next
  st,        \* "run", inside a statement ("cleanup", "copy_data", "copy_stat",
             \* "unlink", "git_exit_0", "git_exit_1"),
             \* "done" (the report was returned) or "interrupted"
  fs,        \* generated path -> file
  dirs,      \* the directories that exist
  exec,      \* the paths whose executable bit is set
  temp,      \* the temporary file of the write under way
  buf,       \* the content string built last
  git,       \* the repository at main_repo_path
  clock,     \* the last reading of datetime.now()
  faulted,   \* the faults injected so far: <<statement, kind>>
  calls,     \* the stages begun, in order
  failed,    \* the stages that raised
  completed, \* the stages that returned normally
  result,    \* what create_main_github_repository returned
  report,    \* what execute_mobile_access_setup returned
  prior,     \* TRUE when an earlier run left its complete tree
  tmpdir,    \* the volume of tempfile.gettempdir()
  written,   \* the paths a completed shutil.move of this run placed a file at
  left,      \* how many temporary files of earlier writes are still there
  foreign,   \* what is under mobile_dir that the program does not generate
  broken,    \* the create_* functions in which no temporary file can be made
  analysis,  \* the file at self.completion_analysis
  lpc,       \* the position of a call of load_completion_analysis
  loaded,    \* what load_completion_analysis returned
  log        \* the levels of the records load_completion_analysis logged

\* The state that a run of execute_mobile_access_setup never touches.
others == <<foreign, broken, analysis, lpc, loaded, log>>

vars == <<pc, st, fs, dirs, exec, temp, buf, git, clock, faulted, calls, failed,
          completed, result, report, prior, tmpdir, written, left, others>>

Init ==
  /\ prior \in BOOLEAN
  /\ tmpdir \in Volumes
  /\ clock \in Clock
  /\ pc = 1
  /\ st = "run"
  /\ fs = IF prior THEN BootstrappedTree ELSE EmptyTree
  /\ dirs = IF prior THEN BootstrappedDirs ELSE {}
  /\ exec = IF prior THEN ExecutablePaths ELSE {}
  /\ git = IF prior THEN BootstrappedGit ELSE NoGit
  /\ temp = NoTemp
  /\ buf = <<>>
  /\ faulted = {}
  /\ calls = <<>>
  /\ failed = {}
  /\ completed = {}
  /\ result = "none"
  /\ report = NoReport
  /\ written = {}
  /\ left = 0
  /\ foreign \in (IF prior THEN {{}, UserTree} ELSE {{}})
  /\ broken \in SUBSET Components
  /\ analysis = AbsentFile
  /\ lpc = "idle"
  /\ loaded = NotLoaded
  /\ log = <<>>

Cur == Program[pc]
At(kind) == st = "run" /\ pc \in 1..Len(Program) /\ Cur.kind = kind
InMain == Cur.fn = "create_main_github_repository"
Stage == IF InMain THEN Cur.arg ELSE Cur.fn

\* The failures of a run: up to MaxFaults of them, each at any statement,
\* or, in a run whose temporary directory refuses the files of some create_*
\* functions (broken), the failure of each of these functions at its first
\* NamedTemporaryFile.
CanFault == broken = {} /\ Cardinality(faulted) < MaxFaults
Inject(kind) == faulted' = faulted \cup {<<pc, kind>>}

\* Raise, had no except clause caught the exception: it leaves
\* execute_mobile_access_setup, which returns nothing.
RaiseUncaught ==
  /\ pc' = Len(Program) + 1
  /\ st' = "run"
  /\ failed' = failed \cup {Stage}
  /\ result' = IF InMain THEN "False" ELSE result

\* Raise, had a create_* operation reported its failure to
\* create_main_github_repository, which then returns False.
RaiseFailsMain ==
  /\ pc' = Handler(pc)
  /\ st' = "run"
  /\ failed' = failed \cup {Stage}
  /\ result' = IF Cur.fn \in CalledBy("create_main_github_repository")
               THEN "False" ELSE result

\* An exception leaves the statement: the enclosing except clause logs it and
\* its function returns (False, for create_main_github_repository).
Raise ==
  /\ pc' = Handler(pc)
  /\ st' = "run"
  /\ failed' = failed \cup {Stage}
  /\ result' = IF InMain THEN "False" ELSE result

\* The statement ends normally; a statement of create_main_github_repository
\* itself is a stage of its own.
Begin == calls' = IF InMain THEN Append(calls, Cur.arg) ELSE calls
Finish ==
  /\ pc' = pc + 1
  /\ st' = "run"
  /\ completed' = IF InMain THEN completed \cup {Cur.arg} ELSE completed
  /\ UNCHANGED <<failed, result>>

\* ---------------------------------------------------------------- actions
\* A create_* function is entered (its first logger.info).
Call ==
  /\ At("call")
  /\ calls' = Append(calls, Cur.fn)
  /\ pc' = pc + 1
  /\ UNCHANGED <<st, fs, dirs, exec, temp, buf, git, clock, faulted, failed,
                 completed, result, report, prior, tmpdir, written>>
  /\ UNCHANGED <<left, others>>

\* A create_* function reaches the end of its try block.
Ret ==
  /\ At("ret")
  /\ completed' = completed \cup {Cur.fn}
  /\ pc' = pc + 1
  /\ UNCHANGED <<st, fs, dirs, exec, temp, buf, git, clock, faulted, calls,
                 failed, result, report, prior, tmpdir, written>>
  /\ UNCHANGED <<left, others>>

\* create_main_github_repository: return True
ReturnTrue ==
  /\ At("return")
  /\ result' = "True"
  /\ pc' = pc + 1
  /\ UNCHANGED <<st, fs, dirs, exec, temp, buf, git, clock, faulted, calls,
                 failed, completed, report, prior, tmpdir, written>>
  /\ UNCHANGED <<left, others>>

\* A content string (or the dashboard_config dictionary) is built; the
\* dictionary reads datetime.now(), the local wall clock, which may show
\* less than it showed at the reading before.
Render ==
  /\ At("render")
  /\ \E now \in Clock :
       /\ ReadsClock(Cur.arg) \/ now = clock
       /\ clock' = now
       /\ buf' = Rendered(Cur.arg, now)
  /\ pc' = pc + 1
  /\ UNCHANGED <<st, fs, dirs, exec, temp, git, faulted, calls, failed,
                 completed, result, report, prior, tmpdir, written>>
  /\ UNCHANGED <<left, others>>

\* Mkdir, had the directory been made afresh (shutil.rmtree, then mkdir):
\* what a user had put below it is gone.
MkdirAfresh ==
  /\ At("mkdir")
  /\ Begin
  /\ \/ /\ dirs' = dirs \cup Ancestors(Cur.path)
        /\ foreign' = {x \in foreign : ~IsUnder(x.path, Cur.path)}
        /\ Finish
        /\ UNCHANGED faulted
     \/ /\ CanFault
        /\ Inject("error")
        /\ Raise
        /\ UNCHANGED <<dirs, completed, foreign>>
  /\ UNCHANGED <<fs, exec, temp, buf, git, clock, report, prior, tmpdir, written>>
  /\ UNCHANGED <<left, broken, analysis, lpc, loaded, log>>

\* Path.mkdir(parents=True, exist_ok=True)
Mkdir ==
  /\ At("mkdir")
  /\ Begin
  /\ \/ /\ dirs' = dirs \cup Ancestors(Cur.path)
        /\ Finish
        /\ UNCHANGED faulted
     \/ /\ CanFault
        /\ Inject("error")
        /\ Raise
        /\ UNCHANGED <<dirs, completed>>
  /\ UNCHANGED <<fs, exec, temp, buf, git, clock, report, prior, tmpdir, written>>
  /\ UNCHANGED <<left, others>>

\* tempfile.NamedTemporaryFile(mode='w', encoding='utf-8', delete=False,
\* suffix='.tmp'): no dir argument, so the file is made in gettempdir().
NamedTemporaryFile ==
  /\ At("tmp")
  /\ \/ /\ Cur.fn \notin broken
        /\ temp' = [exists |-> TRUE, data |-> <<>>, vol |-> tmpdir]
        /\ left' = IF temp.exists THEN left + 1 ELSE left
        /\ pc' = pc + 1
        /\ UNCHANGED <<st, faulted, failed, result>>
     \/ /\ CanFault \/ Cur.fn \in broken
        /\ Inject("error")
        /\ Raise
        /\ UNCHANGED <<temp, left>>
  /\ UNCHANGED <<fs, dirs, exec, buf, git, clock, calls, completed, report,
                 prior, tmpdir, written>>
  /\ UNCHANGED others

\* temp_file.write(content) or json.dump(dashboard_config, temp_file)
TempWrite ==
  /\ At("write")
  /\ \/ /\ temp' = [temp EXCEPT !.data = buf]
        /\ pc' = pc + 1
        /\ UNCHANGED <<st, faulted>>
     \/ /\ CanFault
        /\ Inject("error")
        /\ \E part \in Prefixes(buf) : temp' = [temp EXCEPT !.data = part]
        /\ st' = "cleanup"
        /\ UNCHANGED pc
  /\ UNCHANGED <<fs, dirs, exec, buf, git, clock, calls, failed, completed,
                 result, report, prior, tmpdir, written>>
  /\ UNCHANGED <<left, others>>

\* temp_file.close(): what write() left in the buffer reaches the file
\* here. A close that raises (file too large, disk full, I/O error) leaves
\* the file closed with a part of the content, nothing, or all of it.
TempClose ==
  /\ At("close")
  /\ \/ /\ pc' = pc + 1
        /\ UNCHANGED <<st, faulted, temp>>
     \/ /\ CanFault
        /\ Inject("error")
        /\ \E part \in Prefixes(temp.data) \cup {temp.data} :
             temp' = [temp EXCEPT !.data = part]
        /\ st' = "cleanup"
        /\ UNCHANGED pc
  /\ UNCHANGED <<fs, dirs, exec, buf, git, clock, calls, failed,
                 completed, result, report, prior, tmpdir, written>>
  /\ UNCHANGED <<left, others>>

\* shutil.move(temp_file.name, path), first part. On the volume of the
\* target it is os.rename. When os.rename raises an OSError, as it does
\* from another volume and may do on the target's own (the directory not
\* allowing it, an I/O error), shutil.move falls back to copy2, which opens
\* the target for writing. When that cannot be opened either, the move
\* raises with the target as it was.
Move ==
  /\ At("move")
  /\ IF Parent(Cur.path) \notin dirs
     THEN /\ st' = "cleanup"
          /\ UNCHANGED <<pc, fs, exec, temp, faulted, written>>
     ELSE \/ /\ temp.vol = VolumeOf(Cur.path)
             /\ fs' = [fs EXCEPT ![Cur.path] = File(temp.data)]
             /\ exec' = exec \ {Cur.path}
             /\ temp' = NoTemp
             /\ written' = written \cup {Cur.path}
             /\ pc' = pc + 1
             /\ UNCHANGED <<st, faulted>>
          \/ /\ temp.vol # VolumeOf(Cur.path)
             /\ fs' = [fs EXCEPT ![Cur.path] = File(<<>>)]
             /\ st' = "copy_data"
             /\ UNCHANGED <<pc, exec, temp, faulted, written>>
          \/ /\ temp.vol = VolumeOf(Cur.path)
             /\ CanFault
             /\ Inject("rename")
             /\ fs' = [fs EXCEPT ![Cur.path] = File(<<>>)]
             /\ st' = "copy_data"
             /\ UNCHANGED <<pc, exec, temp, written>>
          \/ /\ CanFault
             /\ Inject("error")
             /\ st' = "cleanup"
             /\ UNCHANGED <<pc, fs, exec, temp, written>>
  /\ UNCHANGED <<dirs, buf, git, clock, calls, failed, completed, result,
                 report, prior, tmpdir>>
  /\ UNCHANGED <<left, others>>

\* shutil.copyfile: the content of the temporary file is written to the
\* target that was opened.
CopyData ==
  /\ st = "copy_data"
  /\ \/ /\ fs' = [fs EXCEPT ![Cur.path] = File(temp.data)]
        /\ st' = "copy_stat"
        /\ UNCHANGED faulted
     \/ /\ CanFault
        /\ Inject("error")
        /\ \E part \in Prefixes(temp.data) : fs' = [fs EXCEPT ![Cur.path] = File(part)]
        /\ st' = "cleanup"
  /\ UNCHANGED <<pc, dirs, exec, temp, buf, git, clock, calls, failed,
                 completed, result, report, prior, tmpdir, written>>
  /\ UNCHANGED <<left, others>>

\* shutil.copystat gives the target the mode of the temporary file (0600).
CopyStat ==
  /\ st = "copy_stat"
  /\ \/ /\ exec' = exec \ {Cur.path}
        /\ st' = "unlink"
        /\ UNCHANGED faulted
     \/ /\ CanFault
        /\ Inject("error")
        /\ st' = "cleanup"
        /\ UNCHANGED exec
  /\ UNCHANGED <<pc, fs, dirs, temp, buf, git, clock, calls, failed, completed,
                 result, report, prior, tmpdir, written>>
  /\ UNCHANGED <<left, others>>

\* os.unlink(src): shutil.move removes the temporary file it has copied.
Unlink ==
  /\ st = "unlink"
  /\ \/ /\ temp' = NoTemp
        /\ written' = written \cup {Cur.path}
        /\ pc' = pc + 1
        /\ st' = "run"
        /\ UNCHANGED faulted
     \/ /\ CanFault
        /\ Inject("error")
        /\ st' = "cleanup"
        /\ UNCHANGED <<pc, temp, written>>
  /\ UNCHANGED <<fs, dirs, exec, buf, git, clock, calls, failed, completed,
                 result, report, prior, tmpdir>>
  /\ UNCHANGED <<left, others>>

\* Cleanup, had the except clause also removed the directory that was made
\* for the file.
CleanupRollsBack ==
  /\ st = "cleanup"
  /\ temp' = NoTemp
  /\ dirs' = dirs \ {Parent(Cur.path)}
  /\ Raise
  /\ UNCHANGED <<fs, exec, buf, git, clock, faulted, calls, completed,
                 report, prior, tmpdir, written>>
  /\ UNCHANGED <<left, others>>

\* except Exception: if os.path.exists(temp_file.name): os.unlink(...); raise
\* When os.unlink raises there, the temporary file stays and its exception
\* goes to the except clause of the function in place of the first.
Cleanup ==
  /\ st = "cleanup"
  /\ \/ /\ temp' = NoTemp
        /\ UNCHANGED faulted
     \/ /\ temp.exists
        /\ CanFault
        /\ Inject("unlink")
        /\ UNCHANGED temp
  /\ Raise
  /\ UNCHANGED <<fs, dirs, exec, buf, git, clock, calls, completed,
                 report, prior, tmpdir, written>>
  /\ UNCHANGED <<left, others>>

\* Touch, had it been gitkeep_path.touch(exist_ok=False): FileExistsError
\* when the marker is there already.
TouchExclusive ==
  /\ At("touch")
  /\ \/ /\ ~fs[Cur.path].exists
        /\ fs' = [fs EXCEPT ![Cur.path] = File(<<>>)]
        /\ pc' = pc + 1
        /\ UNCHANGED <<st, faulted, failed, result>>
     \/ /\ fs[Cur.path].exists
        /\ Raise
        /\ UNCHANGED <<fs, faulted>>
     \/ /\ CanFault
        /\ Inject("error")
        /\ Raise
        /\ UNCHANGED fs
  /\ UNCHANGED <<dirs, exec, temp, buf, git, clock, calls, completed, report,
                 prior, tmpdir, written>>
  /\ UNCHANGED <<left, others>>

\* gitkeep_path.touch(): creates an empty file unless one exists.
Touch ==
  /\ At("touch")
  /\ \/ /\ fs' = [fs EXCEPT ![Cur.path] = IF @.exists THEN @ ELSE File(<<>>)]
        /\ pc' = pc + 1
        /\ UNCHANGED <<st, faulted, failed, result>>
     \/ /\ CanFault
        /\ Inject("error")
        /\ Raise
        /\ UNCHANGED fs
  /\ UNCHANGED <<dirs, exec, temp, buf, git, clock, calls, completed, report,
                 prior, tmpdir, written>>
  /\ UNCHANGED <<left, others>>

\* os.chmod(path, 0o755)
Chmod ==
  /\ At("chmod")
  /\ \/ /\ exec' = exec \cup {Cur.path}
        /\ pc' = pc + 1
        /\ UNCHANGED <<st, faulted, failed, result>>
     \/ /\ CanFault
        /\ Inject("error")
        /\ Raise
        /\ UNCHANGED exec
  /\ UNCHANGED <<fs, dirs, temp, buf, git, clock, calls, completed, report,
                 prior, tmpdir, written>>
  /\ UNCHANGED <<left, others>>

\* What a git subcommand that exits zero does to the repository.
GitEffect(cmd) ==
  CASE cmd = "git init" -> [git EXCEPT !.init = TRUE]
    [] cmd = "git add" -> [git EXCEPT !.index = Snapshot(fs, exec, foreign)]
    [] cmd = "git commit" -> [git EXCEPT !.head = git.index, !.commits = @ + 1]
    [] cmd = "git remote add" -> [git EXCEPT !.remotes = @ \cup {"origin"}]

\* git's own reasons to exit non-zero: nothing to commit, remote exists.
GitRefuses(cmd) ==
  \/ cmd = "git commit" /\ git.index = git.head
  \/ cmd = "git remote add" /\ "origin" \in git.remotes

\* The git subprocess has done its work, or failed, and is about to exit.
GitWait == {"git_exit_0", "git_exit_1"}

\* What a git subprocess that exits non-zero after a failure may have done
\* by then: nothing, or its work (git init has made .git, git add has
\* written the index, git commit has made the commit, git remote add has
\* written origin) before it failed or was killed.
GitPartial(cmd) == {git, GitEffect(cmd)}

\* subprocess.run(["git", ...], cwd=main_repo_path, check=True), first part:
\* the subprocess is started and git does its work, refuses, or fails (also:
\* cannot be started, is killed).
GitRun ==
  /\ At("git")
  /\ Begin
  /\ \/ /\ ~GitRefuses(Cur.arg)
        /\ git' = GitEffect(Cur.arg)
        /\ st' = "git_exit_0"
        /\ UNCHANGED faulted
     \/ /\ GitRefuses(Cur.arg)
        /\ st' = "git_exit_1"
        /\ UNCHANGED <<git, faulted>>
     \/ /\ ~GitRefuses(Cur.arg)
        /\ CanFault
        /\ Inject("error")
        /\ st' = "git_exit_1"
        /\ git' \in GitPartial(Cur.arg)
  /\ UNCHANGED <<pc, fs, dirs, exec, temp, buf, clock, failed, completed, result,
                 report, prior, tmpdir, written>>
  /\ UNCHANGED <<left, others>>

\* GitExit, had the git subprocess never exited: subprocess.run has no
\* timeout and waits for ever.
GitExitHangs ==
  /\ st \in GitWait
  /\ FALSE
  /\ UNCHANGED vars

\* GitExit, had subprocess.run been called without check=True: a non-zero
\* exit status raises nothing and the next statement runs.
GitExitUnchecked ==
  /\ st \in GitWait
  /\ IF st = "git_exit_0"
     THEN Finish
     ELSE /\ pc' = pc + 1
          /\ st' = "run"
          /\ failed' = failed \cup {Stage}
          /\ UNCHANGED <<result, completed>>
  /\ UNCHANGED <<fs, dirs, exec, temp, buf, git, clock, faulted, calls, report,
                 prior, tmpdir, written>>
  /\ UNCHANGED <<left, others>>

\* subprocess.run, second part: the subprocess exits; with check=True a
\* non-zero exit status raises CalledProcessError.
GitExit ==
  /\ st \in GitWait
  /\ IF st = "git_exit_0"
     THEN Finish
     ELSE Raise /\ UNCHANGED completed
  /\ UNCHANGED <<fs, dirs, exec, temp, buf, git, clock, faulted, calls, report,
                 prior, tmpdir, written>>
  /\ UNCHANGED <<left, others>>

\* report = self.generate_mobile_completion_report(); return report
\* (datetime.now() again: any reading, earlier ones included)
Report ==
  /\ At("report")
  /\ \E now \in Clock :
       /\ clock' = now
       /\ report' = generate_mobile_completion_report(now)
  /\ st' = "done"
  /\ pc' = pc + 1
  /\ UNCHANGED <<fs, dirs, exec, temp, buf, git, faulted, calls, failed,
                 completed, result, prior, tmpdir, written>>
  /\ UNCHANGED <<left, others>>

\* The process is interrupted (KeyboardInterrupt is no Exception: no except
\* clause of the program catches it).
Interrupt ==
  /\ st \notin {"done", "interrupted"}
  /\ CanFault
  /\ Inject("interrupt")
  /\ st' = "interrupted"
  /\ UNCHANGED <<pc, fs, dirs, exec, temp, buf, git, clock, calls, failed,
                 completed, result, report, prior, tmpdir, written>>
  /\ UNCHANGED <<left, others>>

Next ==
  \/ Call
  \/ Ret
  \/ ReturnTrue
  \/ Render
  \/ Mkdir
  \/ NamedTemporaryFile
  \/ TempWrite
  \/ TempClose
  \/ Move
  \/ CopyData
  \/ CopyStat
  \/ Unlink
  \/ Cleanup
  \/ Touch
  \/ Chmod
  \/ GitRun
  \/ GitExit
  \/ Report
  \/ Interrupt

Spec == Init /\ [][Next]_vars

\* ------------------------------------------------------------ sanity
TypeOK ==
  /\ pc \in 1..(Len(Program) + 1)
  /\ st \in {"run", "cleanup", "copy_data", "copy_stat", "unlink", "git_exit_0",
            "git_exit_1", "done", "interrupted"}
  /\ DOMAIN fs = GeneratedPaths
  /\ left \in Nat
  /\ exec \subseteq GeneratedPaths
  /\ written \subseteq GeneratedPaths
  /\ clock \in Clock
  /\ result \in {"none", "True", "False"}

\* A fault-free run on an empty root that read PriorTime for the dashboard
\* configuration ends in the bootstrapped state.
BootstrapAgrees ==
  (st = "done" /\ ~prior /\ faulted = {}
     /\ fs[ConfigPath(main_repo_path)] = BootstrappedTree[ConfigPath(main_repo_path)])
    => /\ fs = BootstrappedTree
       /\ dirs = BootstrappedDirs
       /\ exec = ExecutablePaths
       /\ git = BootstrappedGit

\* ------------------------------------------------------------ vocabulary
Range(seq) == {seq[i] : i \in 1..Len(seq)}

\* What a generated path held when the run began.
Before(p) == IF prior THEN BootstrappedTree[p] ELSE NoFile

WriteKinds == {"tmp", "write", "close", "move"}
Expansion == "create_recommended_subdirectory_structure"

\* The faults that made the write of a generated file fail.
WriteFaults == {f \in faulted : f[2] = "error" /\ Program[f[1]].kind \in WriteKinds}

\* A failure of os.rename alone: shutil.move goes on to copy.
RenameFaults == {f \in faulted : f[2] = "rename"}

\* A failure of os.unlink in the except clause of a write.
CleanupFaults == {f \in faulted : f[2] = "unlink"}

\* The stages of create_main_github_repository that were begun, in order.
IsMainStage(c) == c # "generate_mobile_setup_instructions"
MainCalls == SelectSeq(calls, IsMainStage)
NoRepeat(seq) == \A i, j \in 1..Len(seq) : seq[i] = seq[j] => i = j

\* ----------------------------------------------------------------- claims
\* C1: when the write of a generated file fails (at the creation of the
\* temporary file, the content write, the close or the move), the target
\* path is, once the generating operation has returned, exactly as it was
\* before the run: absent, or with its previous content.
C1_TargetUnchangedAfterFailedWrite ==
  \A f \in WriteFaults :
    pc > f[1] => fs[Program[f[1]].path] = Before(Program[f[1]].path)

\* C2: in every reachable state every generated path holds nothing, its
\* complete previous content or its complete new content, never a part.
C2_NoPartialContent ==
  \A p \in GeneratedPaths :
    \/ fs[p] = NoFile
    \/ fs[p] = Before(p)
    \/ \E now \in Clock : fs[p] = File(ContentFor(p, now))

\* C3: the temporary file of a write is on the volume of the target's
\* parent directory, and the move onto the target is never a copy.
C3_TempOnTargetVolume ==
  /\ (temp.exists /\ pc \in Indices(WriteKinds))
        => temp.vol = VolumeOf(Parent(Cur.path))
  /\ st \notin {"copy_data", "copy_stat", "unlink"}

\* C4: the flags of the returned report tell the stages reached: no flag is
\* true for a stage that was not reached, and after a failed git commit the
\* remote is not added and main_repository_created is false, next_steps
\* being populated all the same.
C4_ReportReflectsStages ==
  st = "done" =>
    /\ report.main_repository_created => result = "True"
    /\ report.subdirectory_structure => Expansion \in completed
    /\ report.dashboard_access => "create_mobile_dashboard_config" \in completed
    /\ "git commit" \in failed =>
         /\ "git remote add" \notin Range(calls)
         /\ ~report.main_repository_created
         /\ report.next_steps # <<>>

\* C5: when a bootstrap stage fails with an exception, the returned report
\* carries an error field and status "error".
C5_FailureYieldsErrorReport ==
  (st = "done" /\ result = "False") =>
    /\ "error" \in DOMAIN report
    /\ report.status = "error"

\* The order in which create_main_github_repository begins its stages.
StageOrder ==
  <<"mkdir mobile_dir", "mkdir main_repo_path", "git init", Expansion,
    "create_mobile_readme", "create_mobile_requirements",
    "create_mobile_setup_script", "create_mobile_dashboard_config",
    "git add", "git commit", "git remote add">>

FileStages == Components \ {"generate_mobile_setup_instructions"}

\* C6: the stages are reached in the order directory structure, artifacts,
\* version control initialised, staged, committed, remote configured:
\* version control is initialised only after the directory structure and
\* all artifacts have been written.
C6_InitAfterArtifacts ==
  "git init" \in Range(calls) => FileStages \subseteq completed

\* The order the code follows: the stages are begun in the order of
\* StageOrder, each after every earlier one has returned (a root mkdir or
\* a git command having succeeded), and none is begun twice.
StagesInCodeOrder ==
  LET begun == MainCalls
      n == Len(begun)
  IN  /\ n <= Len(StageOrder)
      /\ \A i \in 1..n :
           /\ begun[i] = StageOrder[i]
           /\ \A j \in 1..(i - 1) :
                /\ begun[j] \in completed \cup failed
                /\ begun[j] \notin FileStages => begun[j] \in completed

\* C7, as claimed: a failure in any stage prevents every later stage from
\* being attempted.
C7_AnyFailureHalts ==
  \A i, j \in 1..Len(MainCalls) : i < j => MainCalls[i] \notin failed

\* C7, amended: each stage is attempted at most once and nothing is retried;
\* a failure of a root mkdir or of a git command prevents every later stage
\* of create_main_github_repository; a failure inside directory expansion or
\* an artifact function ends that function only, and every later stage is
\* still attempted.
C7_GitFailureHalts ==
  LET begun == MainCalls
      n == Len(begun)
  IN  /\ NoRepeat(calls)
      /\ \A i \in 1..(n - 1) : begun[i] \in failed => begun[i] \in FileStages
      /\ (st = "done" /\ failed \subseteq Components) => begun = StageOrder

C7_Witness ==
  /\ st = "done"
  /\ "git add" \in failed
  /\ "git commit" \notin Range(calls)
  /\ Expansion \in completed

\* C8: when the write of one directory entry's README fails, every
\* remaining entry of the directory spec is still expanded (directory made,
\* README written, marker made) by the time the operation has returned.
C8_ExpansionContinues ==
  \A f \in WriteFaults :
    (Program[f[1]].fn = Expansion /\ Expansion \in completed \cup failed) =>
      \A j \in (f[1] + 1)..Len(Program) :
        Program[j].fn = Expansion =>
          /\ Program[j].kind = "mkdir" => Program[j].path \in dirs
          /\ Program[j].kind = "move" => Program[j].path \in written
          /\ Program[j].kind = "touch" => fs[Program[j].path].exists

\* C9: no artifact is written to disk with a literal unsubstituted
\* placeholder in it.
C9_NoPlaceholderWritten ==
  \A p \in written : ~HasPlaceholder(fs[p].data)

StripTime(data) == SelectSeq(data, LAMBDA tok : tok.k # "time")

\* C10, as claimed: every artifact generated again with the same
\* configuration has the content the earlier run gave it.
C10_SameContentAtAnyTime ==
  prior => \A p \in written : fs[p] = BootstrappedTree[p]

\* C10, amended: every artifact but the dashboard configuration JSON,
\* generated again with the same configuration at any clock time, has
\* byte for byte the content the earlier run gave it and holds no
\* timestamp; the dashboard configuration JSON holds the time of its
\* generation (created_at) and agrees with the earlier one in all else.
C10_SameContentButCreatedAt ==
  prior =>
    \A p \in written :
      IF p = ConfigPath(main_repo_path)
      THEN /\ StripTime(fs[p].data) = StripTime(BootstrappedTree[p].data)
           /\ \E now \in Clock : fs[p].data = dashboard_config(now)
      ELSE /\ fs[p] = BootstrappedTree[p]
           /\ ~HasTimestamp(fs[p].data)

C10_Witness ==
  /\ prior
  /\ st = "done"
  /\ written = GeneratedPaths \ {Program[i].path : i \in Indices({"touch"})}
  /\ fs[ConfigPath(main_repo_path)] # BootstrappedTree[ConfigPath(main_repo_path)]

\* Control is inside the write of a generated file.
InsideWrite == st \notin {"done", "interrupted"} /\ pc \in Indices(WriteKinds)

\* C11: whatever makes a write fail, an interrupt included, the temporary
\* file of that write is gone once control has left the generating
\* operation: no run leaves a temporary file behind.
C11_NoTempLeftBehind ==
  temp.exists => InsideWrite

\* A generated path holds exactly what the run would place there at some time.
IsComplete(p) == \E now \in Clock : fs[p] = File(ContentFor(p, now))

\* C12: every file the run creates or replaces (directory READMEs, .gitkeep
\* markers, artifacts) reaches its final path by the rename of a fully
\* written temporary file: a final path that no longer holds what it held
\* before the run was placed by a completed move, and no final path is
\* opened to be written in place. Stated where the temporary directory is
\* on the volume of the target and os.rename has not failed, the case in
\* which shutil.move is a rename.
C12_OnlyRenameTouchesFinalPath ==
  (tmpdir = RootVolume /\ RenameFaults = {}) =>
    /\ \A p \in GeneratedPaths : fs[p] # Before(p) => p \in written
    /\ st \notin {"copy_data", "copy_stat", "unlink"}

\* C13: in every reachable state a file at mobile_setup.sh or
\* mobile_server.py that is executable has its complete content.
C13_ExecutableImpliesComplete ==
  \A p \in ExecutablePaths :
    (p \in exec /\ fs[p].exists) => (fs[p] = Before(p) \/ IsComplete(p))
\* The files and the directories that directory-spec expansion makes.
ExpansionOps == {i \in 1..Len(Program) : Program[i].fn = Expansion}
ExpansionPaths == {Program[i].path : i \in ExpansionOps \cap Indices({"move", "touch"})}
ExpansionReadmes == {Program[i].path : i \in ExpansionOps \cap Indices({"move"})}
ExpansionMarkers == {Program[i].path : i \in ExpansionOps \cap Indices({"touch"})}
ExpansionDirs == {Program[i].path : i \in ExpansionOps \cap Indices({"mkdir"})}

\* C14: when expansion runs again on a root that an earlier run expanded,
\* it raises no error although every directory and file exists, and once it
\* has returned the tree is the tree of one run: the same directories, every
\* README with the same content, every marker as it was.
C14_SecondExpansionSameTree ==
  prior =>
    /\ faulted = {} => Expansion \notin failed
    /\ Expansion \in completed =>
         /\ dirs = BootstrappedDirs
         /\ \A p \in ExpansionPaths : fs[p] = BootstrappedTree[p]
         /\ \A p \in ExpansionMarkers : p \notin written

\* The second expansion has returned, having placed every README again.
C14_Witness ==
  /\ prior
  /\ Expansion \in completed
  /\ ExpansionReadmes \subseteq written
  /\ ExpansionReadmes # {}


\* C15: on a root that an earlier run fully bootstrapped, a run in which
\* nothing fails from outside completes every stage of
\* create_main_github_repository and returns True. Stated for the runs whose
\* commit went through (the dashboard configuration carries another time).
C15_RerunReturnsTrue ==
  (prior /\ faulted = {} /\ "git commit" \in completed /\ result # "none")
    => /\ result = "True"
       /\ "git remote add" \in completed

\* What a README write that raised can leave at its target: nothing of its
\* own (<<>>: it raised before shutil.move opened the target, or os.rename
\* was refused and so was the opening), or, os.rename having failed and the
\* copy of shutil.move having opened the target, the one file it left
\* there: a part of the text, or all of it when copystat or the unlink of
\* the temporary file raised.
Leavings(e) ==
  {<<>>} \cup {<<File(part)>> : part \in Prefixes(dir_readme_content(e))
                                          \cup {dir_readme_content(e)}}

\* The loop of create_recommended_subdirectory_structure over the entries in
\* the given order, as a function of the tree. An entry whose README write
\* raises (the entries in the domain of fails, each with what its write
\* left at the target) ends the loop, the try block enclosing the whole
\* loop.
RECURSIVE ExpandTree(_, _, _)
ExpandTree(order, fails, tree) ==
  IF order = <<>> THEN tree
  ELSE LET e == Head(order)
           dir_path == PathJoin(main_repo_path, e.name)
           readme_path == Append(dir_path, "README.md")
           gitkeep_path == Append(dir_path, ".gitkeep")
           made == tree.dirs \cup Ancestors(dir_path)
       IN  IF e.name \in DOMAIN fails
           THEN [dirs |-> made,
                 files |-> IF fails[e.name] = <<>> THEN tree.files
                           ELSE [tree.files EXCEPT ![readme_path] = fails[e.name][1]]]
           ELSE ExpandTree(Tail(order), fails,
                  [dirs |-> made,
                   files |-> [tree.files EXCEPT
                                ![readme_path] = File(dir_readme_content(e)),
                                ![gitkeep_path] = IF @.exists THEN @ ELSE File(<<>>)]])

\* The iteration orders of the directory spec.
Orders ==
  {o \in [1..Len(DirSpec) -> Range(DirSpec)] : \A i, j \in 1..Len(DirSpec) : o[i] = o[j] => i = j}

\* The statement that follows directory-spec expansion, the tree expansion
\* starts from, and the entries whose README write failed in this run.
ExpansionEnd == (CHOOSE i \in ExpansionOps : \A j \in ExpansionOps : j <= i) + 1
StartTree ==
  [dirs |-> (IF prior THEN BootstrappedDirs ELSE {}) \cup Ancestors(main_repo_path),
   files |-> [p \in GeneratedPaths |-> Before(p)]]
EntryReadme(d) == Append(PathJoin(main_repo_path, d.name), "README.md")
FailedEntry(d) == \E f \in WriteFaults : Program[f[1]].path = EntryReadme(d)
FailedEntries ==
  [n \in {d.name : d \in {d \in Range(DirSpec) : FailedEntry(d)}} |->
     LET d == CHOOSE d \in Range(DirSpec) : d.name = n
     IN  IF fs[EntryReadme(d)] = StartTree.files[EntryReadme(d)] THEN <<>>
         ELSE <<fs[EntryReadme(d)]>>]

\* ExpandTree in the declared order is what the run does, on either volume.
ExpandAgrees ==
  (pc = ExpansionEnd /\ st = "run" /\ faulted \subseteq WriteFaults \cup RenameFaults \cup CleanupFaults)
    => /\ \A d \in Range(DirSpec) : FailedEntry(d) => FailedEntries[d.name] \in Leavings(d)
       /\ LET tree == ExpandTree(DirSpec, FailedEntries, StartTree)
           IN  tree.dirs = dirs /\ tree.files = fs

\* C16: for every iteration order of the directory spec, applied to the
\* root the run started from with the same README writes failing, expansion
\* leaves the tree that the declared order leaves.
C16_OrderIndependent ==
  (pc = ExpansionEnd /\ st = "run" /\ tmpdir = RootVolume)
    => \A o \in Orders :
         ExpandTree(o, FailedEntries, StartTree)
           = ExpandTree(DirSpec, FailedEntries, StartTree)

\* C17: when a run on an empty root succeeds at every step, every file it
\* generated lies under the repository root and is in the one commit with
\* the content it has on disk, and the only remote is origin.
C17_AllGeneratedCommitted ==
  (st = "done" /\ ~prior /\ faulted = {} /\ result = "True")
    => /\ \A p \in GeneratedPaths :
            fs[p].exists => (p \in RepoPaths /\ git.head.files[p] = fs[p])
       /\ git.commits = 1
       /\ git.remotes = {"origin"}

\* The generated artifacts: the files under the repository root that are
\* not made by directory-spec expansion.
ArtifactPaths == RepoPaths \ ExpansionPaths

\* C18: when, in a run on an empty root, the write of one artifact fails
\* and nothing else does, the run goes on to its end and every other
\* artifact is generated in it.
C18_OtherArtifactsGenerated ==
  (st = "done" /\ ~prior /\ Cardinality(faulted) = 1) =>
    \A f \in WriteFaults :
      Program[f[1]].path \in ArtifactPaths =>
        /\ result = "True"
        /\ \A b \in ArtifactPaths \ {Program[f[1]].path} : b \in written

\* C19: no step of a run, and no failure handler, undoes an effect that
\* exists: directories stay, files stay and a file this run placed keeps its
\* content, the repository stays initialised, what is staged or committed
\* stays so, commits and remotes are not taken away, and the stages that
\* completed stay completed.
C19_NoRollback ==
  [][/\ dirs \subseteq dirs'
     /\ \A p \in GeneratedPaths : fs[p].exists => fs'[p].exists
     /\ \A p \in written : p \in written' /\ fs'[p] = fs[p]
     /\ git.init => git'.init
     /\ \A p \in RepoPaths :
          /\ git.index.files[p].exists => git'.index.files[p].exists
          /\ git.head.files[p].exists => git'.head.files[p].exists
     /\ git.commits <= git'.commits
     /\ git.remotes \subseteq git'.remotes
     /\ completed \subseteq completed']_vars

\* On an empty root every file was placed and staged, the commit failed, and
\* the run has ended.
C19_Witness ==
  /\ st = "done"
  /\ ~prior
  /\ "git commit" \in failed
  /\ RepoPaths \subseteq written \cup ExpansionMarkers
  /\ \A p \in RepoPaths : fs[p].exists /\ git.index.files[p].exists
  /\ git.init

\* The directories and the files that exist below the repository root.
DirsBelowRoot == {d \in dirs : IsUnder(d, main_repo_path) /\ d # main_repo_path}
FilesIn(d) == {p \in GeneratedPaths : fs[p].exists /\ Parent(p) = d}
Includes(data, text) == \E i \in 1..Len(data) : data[i] = Val(text)

\* C20: from an empty root and with nothing failing, expansion leaves, when
\* it has returned, exactly one directory per entry of the directory spec
\* and no other, each holding exactly a README.md whose text includes the
\* entry's description and an empty .gitkeep; no other file exists.
C20_ExpansionOfEmptyRoot ==
  (pc = ExpansionEnd /\ st = "run" /\ ~prior /\ faulted = {})
    => /\ Expansion \in completed
       /\ DirsBelowRoot = {PathJoin(main_repo_path, e.name) : e \in Range(DirSpec)}
       /\ Cardinality(DirsBelowRoot) = Len(DirSpec)
       /\ \A e \in Range(DirSpec) :
            LET dir_path == PathJoin(main_repo_path, e.name)
            IN  /\ FilesIn(dir_path)
                     = {Append(dir_path, "README.md"), Append(dir_path, ".gitkeep")}
                /\ Includes(fs[Append(dir_path, "README.md")].data, e.description)
                /\ fs[Append(dir_path, ".gitkeep")] = File(<<>>)
       /\ \A p \in GeneratedPaths : fs[p].exists => Parent(p) \in DirsBelowRoot

\* Expansion has returned on an empty root with nothing failed.
C20_Witness ==
  /\ pc = ExpansionEnd /\ st = "run" /\ ~prior /\ faulted = {}
  /\ Expansion \in completed
  /\ \A e \in Range(DirSpec) :
       fs[Append(PathJoin(main_repo_path, e.name), "README.md")].exists

\* A step of the program itself (any step but the interrupt of the process).
ProgramStep == Next /\ st' # "interrupted"
Interrupted == \E f \in faulted : f[2] = "interrupt"

\* C21: whatever expected failures occur and in whatever combination (an
\* error at a mkdir, at any step of a write, in the except clause of a
\* write, at a touch or chmod, a git command that exits non-zero or cannot
\* be started), no exception leaves execute_mobile_access_setup: a
\* run that was not interrupted either has returned a report or has a next
\* statement to run, and what it returns is a report structure.
C21_FailuresNeverEscape ==
  ~Interrupted =>
    /\ st # "interrupted"
    /\ st = "done" \/ ENABLED ProgramStep
    /\ st = "done" => {"timestamp", "repository_info", "next_steps"} \subseteq DOMAIN report

\* A report was returned by a run in which a write failed, os.unlink
\* failed in its except clause, and the temporary file stayed.
C21_Witness ==
  /\ st = "done"
  /\ WriteFaults # {}
  /\ CleanupFaults # {}
  /\ temp.exists \/ left > 0
  /\ failed # {}
  /\ "timestamp" \in DOMAIN report

\* A step that needs no subprocess: the interpreter runs one statement
\* after the other, so a statement that can run does run.
LocalStep == st \notin GitWait /\ ProgramStep

\* The program when every git subprocess that is started exits: subprocess.run
\* then returns or raises, and the interpreter goes on.
FairSpec == Init /\ [][Next]_vars /\ WF_vars(LocalStep) /\ WF_vars(GitExit)

\* C22: if every git invocation returns, the run comes to its end: it
\* returns the report (or the process was interrupted). Nothing but the
\* return of the subprocess takes control past a git statement.
C22_RunTerminates ==
  <>(st = "done" \/ st = "interrupted")

\* The report was returned after the four git commands were run.
C22_Witness ==
  /\ st = "done"
  /\ {"git init", "git add", "git commit", "git remote add"} \subseteq Range(calls)
  /\ "timestamp" \in DOMAIN report

\* ------------------------------------------------ load_completion_analysis
\* The text of the completion-analysis file, as JSON tokens separated by
\* blanks: braces, the string "a", the colon, the number 1.
MaxText == 5
JsonTokens == {"{", "}", "\"a\"", ":", "1"}
Texts == UNION {[1..n -> JsonTokens] : n \in 0..MaxText}
AnalysisFiles ==
  {AbsentFile, [exists |-> TRUE, readable |-> FALSE, text |-> <<>>]}
    \cup {[exists |-> TRUE, readable |-> TRUE, text |-> t] : t \in Texts}

\* The values json.load can return on these texts; {} is EmptyMapping.
JsonNumber(s) == [t |-> "num", s |-> s, members |-> {}]
JsonString(s) == [t |-> "str", s |-> s, members |-> {}]
JsonObject(members) == [t |-> "obj", s |-> "", members |-> members]
EmptyMapping == JsonObject({})
Unparsed == [ok |-> FALSE, value |-> EmptyMapping, rest |-> <<>>]

\* The JSON decoder on a token sequence: the value read first and the
\* tokens left after it.
RECURSIVE ParseValue(_)
ParseValue(toks) ==
  IF toks = <<>> THEN Unparsed
  ELSE CASE Head(toks) = "1" ->
              [ok |-> TRUE, value |-> JsonNumber("1"), rest |-> Tail(toks)]
         [] Head(toks) = "\"a\"" ->
              [ok |-> TRUE, value |-> JsonString("a"), rest |-> Tail(toks)]
         [] Head(toks) = "{" ->
              IF Len(toks) >= 2 /\ toks[2] = "}"
              THEN [ok |-> TRUE, value |-> EmptyMapping, rest |-> SubSeq(toks, 3, Len(toks))]
              ELSE IF Len(toks) >= 3 /\ toks[2] = "\"a\"" /\ toks[3] = ":"
                   THEN LET v == ParseValue(SubSeq(toks, 4, Len(toks)))
                        IN  IF v.ok /\ v.rest # <<>> /\ Head(v.rest) = "}"
                            THEN [ok |-> TRUE, value |-> JsonObject({<<"a", v.value>>}),
                                  rest |-> Tail(v.rest)]
                            ELSE Unparsed
                   ELSE Unparsed
         [] OTHER -> Unparsed

\* json.load(f): the value of the whole text, or JSONDecodeError (text that
\* is no value, or has tokens after its value).
json_load(text) ==
  LET r == ParseValue(text)
  IN  IF r.ok /\ r.rest = <<>> THEN [ok |-> TRUE, value |-> r.value]
      ELSE [ok |-> FALSE, value |-> EmptyMapping]

Returned(value) == [returned |-> TRUE, ok |-> TRUE, value |-> value]

\* if not self.completion_analysis.exists(): logger.warning(...); return {}
LoadExists ==
  /\ lpc = "call"
  /\ IF analysis.exists
     THEN lpc' = "open" /\ UNCHANGED <<loaded, log>>
     ELSE /\ log' = Append(log, "WARNING")
          /\ loaded' = Returned(EmptyMapping)
          /\ lpc' = "returned"
  /\ UNCHANGED <<pc, st, fs, dirs, exec, temp, buf, git, clock, faulted, calls,
                 failed, completed, result, report, prior, tmpdir, written,
                 left, foreign, broken, analysis>>

\* The exception reaches the caller: no except clause catches it.
Escapes ==
  /\ lpc' = "raised"
  /\ UNCHANGED <<loaded, log>>

\* except Exception as e: logger.error(...); return {}
Caught ==
  /\ log' = Append(log, "ERROR")
  /\ loaded' = Returned(EmptyMapping)
  /\ lpc' = "returned"

\* with open(self.completion_analysis, 'r', encoding='utf-8') as f:
LoadOpen ==
  /\ lpc = "open"
  /\ IF analysis.readable
     THEN lpc' = "parse" /\ UNCHANGED <<loaded, log>>
     ELSE Caught
  /\ UNCHANGED <<pc, st, fs, dirs, exec, temp, buf, git, clock, faulted, calls,
                 failed, completed, result, report, prior, tmpdir, written,
                 left, foreign, broken, analysis>>

\* analysis = json.load(f); return analysis
LoadParse ==
  /\ lpc = "parse"
  /\ IF json_load(analysis.text).ok
     THEN /\ loaded' = Returned(json_load(analysis.text).value)
          /\ lpc' = "returned"
          /\ UNCHANGED log
     ELSE Caught
  /\ UNCHANGED <<pc, st, fs, dirs, exec, temp, buf, git, clock, faulted, calls,
                 failed, completed, result, report, prior, tmpdir, written,
                 left, foreign, broken, analysis>>

\* One call of load_completion_analysis, for every completion-analysis file,
\* on an empty root or a bootstrapped one.
LoadInit ==
  /\ prior \in BOOLEAN
  /\ tmpdir = RootVolume
  /\ clock = PriorTime
  /\ pc = 1
  /\ st = "run"
  /\ fs = IF prior THEN BootstrappedTree ELSE EmptyTree
  /\ dirs = IF prior THEN BootstrappedDirs ELSE {}
  /\ exec = IF prior THEN ExecutablePaths ELSE {}
  /\ git = IF prior THEN BootstrappedGit ELSE NoGit
  /\ temp = NoTemp
  /\ buf = <<>>
  /\ faulted = {}
  /\ calls = <<>>
  /\ failed = {}
  /\ completed = {}
  /\ result = "none"
  /\ report = NoReport
  /\ written = {}
  /\ left = 0
  /\ foreign \in (IF prior THEN {{}, UserTree} ELSE {{}})
  /\ broken = {}
  /\ analysis \in AnalysisFiles
  /\ lpc = "call"
  /\ loaded = NotLoaded
  /\ log = <<>>

LoadNext ==
  \/ LoadExists
  \/ LoadOpen
  \/ LoadParse

LoadSpec == LoadInit /\ [][LoadNext]_vars

\* The completion-analysis file cannot be read or parsed.
Unusable == analysis.exists /\ (~analysis.readable \/ ~json_load(analysis.text).ok)

\* C23 as stated: on an absent completion-analysis file the call returns
\* the empty mapping and has modified no file at all, the log file included.
C23_AbsentLeavesEveryFile ==
  (lpc = "returned" /\ ~analysis.exists)
    => (loaded.value = EmptyMapping /\ log = <<>>)

\* C23: a call of load_completion_analysis on an absent file, or on a file
\* that cannot be read or parsed, does not raise and returns the empty
\* mapping; and no call changes a file or a directory (the log apart, which
\* gets the warning or the error).
C23_LoadFallsBackToEmpty ==
  /\ [](/\ lpc # "raised"
        /\ (lpc = "returned" /\ (~analysis.exists \/ Unusable))
             => (loaded.returned /\ loaded.value = EmptyMapping))
  /\ [][/\ analysis' = analysis
        /\ fs' = fs /\ dirs' = dirs /\ exec' = exec /\ foreign' = foreign
        /\ git' = git /\ temp' = temp]_vars

\* The call has returned on a file whose text is not JSON.
C23_Witness ==
  /\ lpc = "returned"
  /\ analysis.exists /\ analysis.readable
  /\ analysis.text # <<>>
  /\ ~json_load(analysis.text).ok
  /\ loaded.value = EmptyMapping
  /\ log = <<"ERROR">>

\* The git commands of create_main_github_repository, and those run so far.
GitCommands == {"git init", "git add", "git commit", "git remote add"}
GitCalls == SelectSeq(calls, LAMBDA c : c \in GitCommands)

\* C24: when a git command of create_main_github_repository exits non-zero
\* (or cannot be run), it is the last git command of the run and the
\* operation returns False; the operation returns True only when all four
\* commands exited zero.
C24_GitFailureShortCircuits ==
  /\ \A g \in GitCommands :
       g \in failed =>
         /\ GitCalls # <<>>
         /\ GitCalls[Len(GitCalls)] = g
         /\ result = "False"
  /\ result = "True" => GitCommands \subseteq completed

\* git add exited non-zero: the run ended without commit or remote.
C24_Witness ==
  /\ st = "done"
  /\ "git add" \in failed
  /\ "git init" \in completed
  /\ "git commit" \notin Range(calls)
  /\ result = "False"

\* C25: when expansion has returned, whatever README writes failed in it,
\* every directory of the directory spec that exists holds its .gitkeep.
C25_EveryDirectoryHasMarker ==
  (pc = ExpansionEnd /\ st = "run" /\ faulted \subseteq WriteFaults)
    => \A d \in ExpansionDirs \cap dirs : fs[Append(d, ".gitkeep")].exists

\* The statements of create_main_github_repository itself: the two root
\* mkdir calls and the four git commands.
RootMkdirs == {"mkdir mobile_dir", "mkdir main_repo_path"}
MainStages == RootMkdirs \cup GitCommands
GeneratingStages == Components \ {"generate_mobile_setup_instructions"}

\* C26: create_main_github_repository returns True whenever its two root
\* mkdir calls and its four git commands succeeded, whatever failed in
\* directory expansion and in the artifact writes: it returns False only
\* when one of its own statements failed.
C26_ResultIgnoresGeneration ==
  /\ (MainStages \subseteq completed /\ result # "none") => result = "True"
  /\ result = "False" => MainStages \cap failed # {}
  /\ (result = "True" /\ st = "done") => MainStages \subseteq completed

\* True was returned by a run in which directory expansion and all artifact
\* functions but one failed. (When all of them fail there is nothing to
\* commit: git commit exits non-zero and False is returned.)
C26_Witness ==
  /\ st = "done"
  /\ result = "True"
  /\ Expansion \in failed
  /\ Cardinality(GeneratingStages \cap failed) = Cardinality(GeneratingStages) - 1
  /\ MainStages \subseteq completed

\* What exists under mobile_dir (mobile_dir included): the directories, the
\* generated files, what the user put there, and the .git directory that
\* git init makes in the repository root.
GitDir == Append(main_repo_path, ".git")
GeneratedDirs == UNION {Ancestors(Parent(p)) : p \in GeneratedPaths}
PresentIn(d, files, user, repo) ==
  d \cup {p \in GeneratedPaths : files[p].exists} \cup {x.path : x \in user}
    \cup (IF repo.init THEN {GitDir} ELSE {})
Present == PresentIn(dirs, fs, foreign, git)
PresentBefore ==
  IF prior THEN PresentIn(BootstrappedDirs, BootstrappedTree, foreign, BootstrappedGit)
  ELSE {}

\* C27 as stated: a run creates or changes nothing but the fixed set of
\* generated paths (and their directories); so the .git directory of the
\* repository is neither made nor changed.
C27_OnlyGeneratedPaths ==
  /\ Present \ PresentBefore \subseteq GeneratedPaths \cup GeneratedDirs
  /\ git = IF prior THEN BootstrappedGit ELSE NoGit
  /\ PresentBefore \subseteq Present

\* C27: under mobile_dir a run creates or changes only the generated paths,
\* their directories and the .git directory of the repository; what else
\* was there is unchanged, nothing that was there is deleted, and the
\* temporary file of a write is in the temporary directory.
C27_FrameOfRun ==
  /\ [](/\ Present \ PresentBefore \subseteq GeneratedPaths \cup GeneratedDirs \cup {GitDir}
        /\ PresentBefore \subseteq Present
        /\ temp.exists => temp.vol = tmpdir)
  /\ [][foreign' = foreign]_vars

\* A run over a bootstrapped root that holds a user's files has ended,
\* having placed the generated files again and committed.
C27_Witness ==
  /\ st = "done"
  /\ faulted = {}
  /\ prior
  /\ foreign # {}
  /\ RepoPaths \ ExpansionMarkers \subseteq written
  /\ git.commits = 2

====
